---- MODULE Spec2Model ----
(***************************************************************************)
(* CoreTables (src/core-tables.js): a server-side data grid.  The model    *)
(* follows one container from the coreTable() call on: the optional column *)
(* discovery, the sort / search / paging handlers, the debounce timer, the *)
(* data requests in flight and what each response writes to the DOM.       *)
(***************************************************************************)
EXTENDS Integers, Sequences, FiniteSets, TLC

VARIABLES
  options,        \* the merged options object (columns are replaced by discovery)
  coreTableState, \* container.data('coreTableState'): the serialised state
  listeners,      \* handlers bound by wireUpEventListeners
  view,           \* the DOM below the container
  columnsPending, \* the column-discovery call is in flight
  fetchCount,     \* how many times fetchData has run
  pending,        \* the data requests in flight
  now,            \* Date.now(), in milliseconds
  timeout,        \* the timer of the debounce closure
  inputValue,     \* the value of the search input
  ignored         \* an event was ignored: a click that found no handler or a
                  \* disabled button, a coreTable() call on an initialised container

vars == <<options, coreTableState, listeners, view, columnsPending, fetchCount,
          pending, now, timeout, inputValue, ignored>>

----------------------------------------------------------------------------
(* Bounds of the model *)

MaxFetches == 4     \* data requests issued per run
MaxTime == 400      \* the clock stops here
TickStep == 400     \* milliseconds per step of the clock
MaxRecords == 2     \* largest recordsFiltered a response carries
MaxColumns == 2     \* columns of a grid
MaxBurst == 2       \* keyups counted per burst
MaxPending == 2     \* data requests in flight at a time
PageLengthOpt == 1  \* the pageLength option
MaxPage == 2        \* SpecSummary: largest page a summary is rendered for
MaxPageLength == 10 \* SpecSummary: largest pageLength option
MaxFiltered == 25   \* SpecSummary: largest recordsFiltered

(* Program constants *)

DebounceDelay == 400

SearchTerms == {"a"}
InputValues == {""} \cup SearchTerms

Min(a, b) == IF a <= b THEN a ELSE b

----------------------------------------------------------------------------
(* Columns and options *)

\* n column definitions, the first k of them with orderable: false and the
\* others without the property.
Columns(n, k) ==
  [i \in 1..n |-> [data |-> i - 1,
                   orderable |-> IF i <= k THEN "false" ELSE "undefined"]]

ColumnChoices ==
  UNION {{Columns(n, k) : k \in 0..n} : n \in {0, MaxColumns}}

\* What the column-discovery endpoint answers with: an empty list, or columns
\* of which the first ones are not orderable (as in the README's example).
DiscoveredChoices == ColumnChoices \ {Columns(MaxColumns, 0)}

\* col.orderable !== false
Orderable(col) == col.orderable # "false"

\* Array.prototype.findIndex with the predicate c => c.orderable !== false,
\* as a 0-based index, -1 when no element matches.
FindIndex(cols) ==
  IF \E i \in 1..Len(cols) : Orderable(cols[i])
  THEN (CHOOSE i \in 1..Len(cols) :
          /\ Orderable(cols[i])
          /\ \A j \in 1..(i - 1) : ~Orderable(cols[j])) - 1
  ELSE -1

\* Object.assign({}, defaults, userOptions): static columns, or a columnsUrl
\* with the default (empty) column list.
MergedOptions ==
  {o \in [ordering : BOOLEAN, paging : BOOLEAN, searching : BOOLEAN,
          pageLength : {PageLengthOpt}, columnsUrl : BOOLEAN,
          columns : ColumnChoices] :
     o.columnsUrl => o.columns = <<>>}

\* The grids of Spec: every feature on (the defaults), or one of them off.
OptionChoices ==
  {o \in MergedOptions :
     Cardinality({f \in {"ordering", "paging", "searching"} : ~o[f]}) <= 1}

\* The grids of SpecSort: no search box and no paging, ordering on or off.
SortOptionChoices ==
  {o \in MergedOptions : ~o.paging /\ ~o.searching}

\* The grids of SpecPaging: paging controls only, static columns.
PagingOptionChoices ==
  {o \in MergedOptions :
     /\ ~o.ordering /\ o.paging /\ ~o.searching
     /\ ~o.columnsUrl /\ o.columns = Columns(MaxColumns, 0)}

\* The grids of SpecRender: static columns, all orderable, and one control:
\* sortable headers or paging buttons.
RenderOptionChoices ==
  {o \in MergedOptions :
     /\ o.ordering # o.paging /\ ~o.searching
     /\ ~o.columnsUrl /\ o.columns = Columns(MaxColumns, 0)}

\* The grids of SpecSearch: search box and paging, no ordering, and static
\* columns (which no handler of such a grid reads).
SearchOptionChoices ==
  {o \in MergedOptions :
     /\ ~o.ordering /\ o.paging /\ o.searching
     /\ ~o.columnsUrl /\ o.columns = Columns(MaxColumns, 0)}

----------------------------------------------------------------------------
(* The serialised state *)

\* JSON.stringify(state): the text is modelled as the tuple of the values it
\* spells out, in the order of the object's keys.
JSONstringify(st) ==
  <<st.currentPage, st.pageLength, st.searchTerm,
    st.sort.columnIndex, st.sort.direction>>

\* JSON.parse of such a text.
JSONparse(text) ==
  [currentPage |-> text[1], pageLength |-> text[2], searchTerm |-> text[3],
   sort |-> [columnIndex |-> text[4], direction |-> text[5]]]

\* The state object coreTable() builds, with the fallback of line 264.
InitialState(opts) ==
  LET found == FindIndex(opts.columns) IN
  [currentPage |-> 0, pageLength |-> opts.pageLength, searchTerm |-> "",
   sort |-> [columnIndex |-> IF found = -1 THEN 0 ELSE found,
             direction |-> "asc"]]

\* The th data attribute 'columnIndex' as the decimal digits of the index,
\* and parseInt of such a text.
DataColumnIndex(index) ==
  IF index < 10 THEN <<index>> ELSE <<index \div 10, index % 10>>

RECURSIVE ParseInt(_)
ParseInt(digits) ==
  IF digits = <<>> THEN 0
  ELSE 10 * ParseInt(SubSeq(digits, 1, Len(digits) - 1)) + digits[Len(digits)]

----------------------------------------------------------------------------
(* State transitions of the handlers *)

\* A sort update that keeps the direction when the column changes.
ToggleSortKeepDirection(st, columnIndex) ==
  IF st.sort.columnIndex = columnIndex
  THEN [st EXCEPT !.sort.direction = IF @ = "asc" THEN "desc" ELSE "asc"]
  ELSE [st EXCEPT !.sort.columnIndex = columnIndex]

\* The sort click handler's update of the parsed state.
ToggleSort(st, columnIndex) ==
  IF st.sort.columnIndex = columnIndex
  THEN [st EXCEPT !.sort.direction = IF @ = "asc" THEN "desc" ELSE "asc"]
  ELSE [st EXCEPT !.sort = [columnIndex |-> columnIndex, direction |-> "asc"]]

\* A search update that keeps the page.
SetSearchKeepPage(st, value) ==
  [st EXCEPT !.searchTerm = value]

\* The debounced search callback's update.
SetSearch(st, value) ==
  [st EXCEPT !.searchTerm = value, !.currentPage = 0]

\* The paging click handler's update for an enabled button.
GoToPage(st, page) ==
  IF page = "next" THEN [st EXCEPT !.currentPage = @ + 1]
  ELSE IF page = "previous" THEN [st EXCEPT !.currentPage = @ - 1]
  ELSE st

----------------------------------------------------------------------------
(* Requests *)

\* requestData of fetchData, without the columns[i][data] entries.
RequestData(st, t) ==
  [draw |-> t,
   start |-> st.currentPage * st.pageLength,
   length |-> st.pageLength,
   search |-> st.searchTerm,
   orderColumn |-> st.sort.columnIndex,
   orderDir |-> st.sort.direction]

\* A request built from the state stored before the handler wrote its own.
NewRequestBeforeWrite(seq, text, t, by) ==
  [seq |-> seq, requestData |-> RequestData(JSONparse(coreTableState), t),
   state |-> JSONparse(coreTableState), by |-> by]

\* One request in flight: its number in order of issue, its parameters and
\* the state object its callbacks close over; by is the caller of fetchData.
NewRequest(seq, text, t, by) ==
  [seq |-> seq, requestData |-> RequestData(JSONparse(text), t),
   state |-> JSONparse(text), by |-> by]

\* What the row payload of a response can be: a non-empty array, an empty
\* array, absent (undefined), or an object that is no array.
Payloads == {"rows", "empty", "missing", "object"}

Responses == [data : Payloads, recordsFiltered : 0..MaxRecords]

----------------------------------------------------------------------------
(* The DOM *)

\* The content of tbody: what it shows, the number of the request that made
\* fetchData or its callbacks write it, and for the error row whether the
\* transport failed ("rejected") or the then callback threw ("threw").
Tbody(kind, seq, why) == [kind |-> kind, seq |-> seq, why |-> why]

NoRows == Tbody("none", 0, "")

\* The container before anything is rendered into it.
BlankView ==
  [container |-> "blank",
   tbody |-> NoRows,
   info |-> <<>>,
   buttons |-> <<>>,
   th |-> <<>>]

\* A header cell that gets the sortable class whatever its column says.
ThSortableAny(opts, col) == opts.ordering

\* The sortable class of a header cell.
ThSortable(opts, col) == opts.ordering /\ Orderable(col)

\* setupTableDOM: the emptied container with the search box, the table with
\* one th per column, an empty tbody and the footer.
SetupTableDOM(opts) ==
  [container |-> "table",
   tbody |-> NoRows,
   info |-> <<>>,
   buttons |-> <<>>,
   th |-> [i \in 1..Len(opts.columns) |->
             [columnIndex |-> DataColumnIndex(i - 1),
              sortable |-> ThSortable(opts, opts.columns[i]),
              sorting |-> ""]]]

\* wireUpEventListeners: one delegated handler per enabled feature.
WireUpEventListeners(opts) ==
  {f \in {"ordering", "searching", "paging"} : opts[f]}

\* The Loading... row fetchData writes for request number seq.
ShowLoading(v, seq) == [v EXCEPT !.tbody = Tbody("loading", seq, "")]

\* The error row of fetchData's catch.
ShowFetchError(v, seq, why) == [v EXCEPT !.tbody = Tbody("error", seq, why)]

\* renderTableBody throws a TypeError when data has no length (undefined) or
\* has a length other than 0 and no map method.
RenderTableBodyThrows(data) == data \in {"missing", "object"}

\* renderTableBody for a payload it does not throw on.
RenderTableBody(v, data, seq) ==
  [v EXCEPT !.tbody = Tbody(IF data = "empty" THEN "noRecords" ELSE "rows",
                            seq, "")]

\* A start record without the case of an empty result.
StartRecordAlways(st, recordsFiltered) ==
  st.currentPage * st.pageLength + 1

StartRecord(st, recordsFiltered) ==
  IF recordsFiltered = 0 THEN 0 ELSE st.currentPage * st.pageLength + 1

EndRecord(st, recordsFiltered) ==
  Min(StartRecord(st, recordsFiltered) + st.pageLength - 1, recordsFiltered)

\* Paging controls whose Next button never gets the disabled class.
RenderPagingControlsNextEnabled(v, st, response) ==
  LET recordsFiltered == response.recordsFiltered
  IN [v EXCEPT !.info = <<StartRecord(st, recordsFiltered),
                          EndRecord(st, recordsFiltered), recordsFiltered>>,
               !.buttons = <<st.currentPage = 0, FALSE>>]

\* renderPagingControls: the summary <<start, end, filtered>> and the two
\* buttons, each as "has the disabled class".
RenderPagingControls(v, st, response) ==
  LET recordsFiltered == response.recordsFiltered
      endRecord == EndRecord(st, recordsFiltered)
  IN [v EXCEPT !.info = <<StartRecord(st, recordsFiltered), endRecord,
                          recordsFiltered>>,
               !.buttons = <<st.currentPage = 0, endRecord >= recordsFiltered>>]

\* renderHeaderSortUI: over the th.sortable cells only.
RenderHeaderSortUI(v, st) ==
  [v EXCEPT !.th = [i \in 1..Len(v.th) |->
     IF v.th[i].sortable
     THEN [v.th[i] EXCEPT !.sorting =
             IF ParseInt(v.th[i].columnIndex) = st.sort.columnIndex
             THEN st.sort.direction ELSE ""]
     ELSE v.th[i]]]

\* The then callback of fetchData, for request number seq issued with state st.
RenderResponse(v, opts, st, response, seq) ==
  IF RenderTableBodyThrows(response.data)
  THEN ShowFetchError(v, seq, "threw")
  ELSE LET body == RenderTableBody(v, response.data, seq)
           paged == IF opts.paging
                    THEN RenderPagingControls(body, st, response) ELSE body
       IN IF opts.ordering THEN RenderHeaderSortUI(paged, st) ELSE paged

----------------------------------------------------------------------------
(* The debounce closure *)

NoTimeout == [armed |-> FALSE, due |-> 0, at |-> 0, value |-> "", n |-> 0]

\* A debounce whose timer is due at once.
DebounceNoDelay(tm, t, value) ==
  [armed |-> TRUE, due |-> t, at |-> t, value |-> value,
   n |-> Min(tm.n + 1, MaxBurst)]

\* The function debounce returns: clearTimeout, then setTimeout(..., delay).
\* at, value and n record, for the timer armed, the time of this call, the
\* input's value at this call and how many calls were made since a timer
\* last fired.
Debounce(tm, t, value) ==
  [armed |-> TRUE, due |-> t + DebounceDelay, at |-> t, value |-> value,
   n |-> Min(tm.n + 1, MaxBurst)]

----------------------------------------------------------------------------
(* Initial states: the container right after coreTable(userOptions) *)

\* The caller of fetchData and the input it handled.
Caller(kind, n) == [kind |-> kind, n |-> n]

\* fetchData up to the transport call: the Loading row and one more request,
\* built from the stored state text, in flight.
FetchData(text, v, by) ==
  /\ fetchCount' = fetchCount + 1
  /\ pending' = pending \cup {NewRequest(fetchCount + 1, text, now, by)}
  /\ view' = ShowLoading(v, fetchCount + 1)

\* The model follows a grid for MaxFetches requests, MaxPending at a time.
CanFetch == fetchCount < MaxFetches /\ Cardinality(pending) < MaxPending

\* coreTable() on a fresh container, through initializeTable.
CoreTable(opts) ==
  /\ options = opts
  /\ coreTableState = JSONstringify(InitialState(opts))
  /\ now = 0
  /\ timeout = NoTimeout
  /\ inputValue = ""
  /\ ignored = FALSE
  /\ IF opts.columnsUrl
     THEN /\ columnsPending = TRUE
          /\ listeners = {}
          /\ view = BlankView
          /\ fetchCount = 0
          /\ pending = {}
     ELSE IF Len(opts.columns) > 0
     THEN /\ columnsPending = FALSE
          /\ listeners = WireUpEventListeners(opts)
          /\ view = ShowLoading(SetupTableDOM(opts), 1)
          /\ fetchCount = 1
          /\ pending = {NewRequest(1, JSONstringify(InitialState(opts)), 0,
                                  Caller("initializeTable", 0))}
     ELSE /\ columnsPending = FALSE
          /\ listeners = {}
          /\ view = [BlankView EXCEPT !.container = "errorNoColumns"]
          /\ fetchCount = 0
          /\ pending = {}

Init == \E opts \in OptionChoices : CoreTable(opts)

InitSort == \E opts \in SortOptionChoices : CoreTable(opts)

InitSearch == \E opts \in SearchOptionChoices : CoreTable(opts)

InitPaging == \E opts \in PagingOptionChoices : CoreTable(opts)

InitRender == \E opts \in RenderOptionChoices : CoreTable(opts)

\* A grid with paging controls only on which Next was clicked page times,
\* each click made once the response before it, with one record beyond the
\* page shown, had been rendered; the request of the last click (of the
\* initial load when page is 0) is in flight.
Paged(opts, page) ==
  LET st == [InitialState(opts) EXCEPT !.currentPage = page]
      before == [InitialState(opts) EXCEPT !.currentPage = page - 1]
      rendered ==
        IF page = 0 THEN SetupTableDOM(opts)
        ELSE RenderPagingControls(
               RenderTableBody(SetupTableDOM(opts), "rows", page), before,
               [data |-> "rows", recordsFiltered |-> page * opts.pageLength + 1])
  IN /\ options = opts
     /\ coreTableState = JSONstringify(st)
     /\ now = 0
     /\ timeout = NoTimeout
     /\ inputValue = ""
     /\ ignored = FALSE
     /\ columnsPending = FALSE
     /\ listeners = WireUpEventListeners(opts)
     /\ view = ShowLoading(rendered, page + 1)
     /\ fetchCount = page + 1
     /\ pending = {NewRequest(page + 1, JSONstringify(st), 0,
                              IF page = 0 THEN Caller("initializeTable", 0)
                              ELSE Caller("paging", 2))}

InitSummary ==
  \E pageLength \in 1..MaxPageLength, page \in 0..MaxPage :
    Paged([ordering |-> FALSE, paging |-> TRUE, searching |-> FALSE,
           pageLength |-> pageLength, columnsUrl |-> FALSE,
           columns |-> Columns(MaxColumns, 0)], page)

----------------------------------------------------------------------------
(* Column discovery *)

\* A then callback that loads the data twice.
ColumnsResolvedFetchTwice(columns) ==
  /\ columnsPending
  /\ columnsPending' = FALSE
  /\ options' = [options EXCEPT !.columns = columns]
  /\ listeners' = WireUpEventListeners(options')
  /\ fetchCount' = fetchCount + 2
  /\ pending' = pending \cup
       {NewRequest(fetchCount + 1, coreTableState, now,
                   Caller("initializeTable", 0)),
        NewRequest(fetchCount + 2, coreTableState, now,
                   Caller("initializeTable", 0))}
  /\ view' = ShowLoading(SetupTableDOM(options'), fetchCount + 2)
  /\ UNCHANGED <<coreTableState, now, timeout, inputValue, ignored>>

\* The then callback of initializeTable.
ColumnsResolved(columns) ==
  /\ columnsPending
  /\ columnsPending' = FALSE
  /\ options' = [options EXCEPT !.columns = columns]
  /\ listeners' = WireUpEventListeners(options')
  /\ FetchData(coreTableState, SetupTableDOM(options'),
               Caller("initializeTable", 0))
  /\ UNCHANGED <<coreTableState, now, timeout, inputValue, ignored>>

\* A catch callback that goes on to load data.
ColumnsRejectedThenFetch ==
  /\ columnsPending
  /\ columnsPending' = FALSE
  /\ FetchData(coreTableState,
               [view EXCEPT !.container = "errorColumns"],
               Caller("initializeTable", 0))
  /\ UNCHANGED <<options, coreTableState, listeners, now, timeout, inputValue,
                 ignored>>

\* The catch callback of initializeTable.
ColumnsRejected ==
  /\ columnsPending
  /\ columnsPending' = FALSE
  /\ view' = [view EXCEPT !.container = "errorColumns"]
  /\ UNCHANGED <<options, coreTableState, listeners, fetchCount, pending, now,
                 timeout, inputValue, ignored>>

----------------------------------------------------------------------------
(* A second coreTable() call on the container *)

\* An if that never finds the stored state.
TruthyNever(data) == FALSE

\* if (container.data('coreTableState')): the stored text is a non-empty
\* string; data() of a key never set is undefined, modelled as <<>>.
Truthy(data) == data # <<>>

\* The options of the second call: the defaults with static columns or with
\* a columnsUrl.
AgainChoices ==
  {o \in MergedOptions :
     /\ o.ordering /\ o.paging /\ o.searching
     /\ o.columnsUrl \/ o.columns = Columns(MaxColumns, 0)}

\* The body of this.each for a container coreTable() was called on before:
\* the guard of line 256, and below it the initialisation it skips.
CoreTableAgain(opts) ==
  IF Truthy(coreTableState)
  THEN /\ ignored' = TRUE
       /\ UNCHANGED <<options, coreTableState, listeners, view, columnsPending,
                      fetchCount, pending, now, timeout, inputValue>>
  ELSE /\ options' = opts
       /\ coreTableState' = JSONstringify(InitialState(opts))
       /\ IF opts.columnsUrl
          THEN /\ columnsPending' = TRUE
               /\ UNCHANGED <<listeners, view, fetchCount, pending>>
          ELSE IF Len(opts.columns) > 0
          THEN /\ CanFetch
               /\ listeners' = listeners \cup WireUpEventListeners(opts)
               /\ FetchData(coreTableState', SetupTableDOM(opts),
                            Caller("initializeTable", 0))
               /\ UNCHANGED columnsPending
          ELSE /\ view' = [BlankView EXCEPT !.container = "errorNoColumns"]
               /\ UNCHANGED <<listeners, columnsPending, fetchCount, pending>>
       /\ UNCHANGED <<now, timeout, inputValue, ignored>>

----------------------------------------------------------------------------
(* User events *)

\* A click on the header cell of column i (1-based here, i - 1 in the code).
\* The handler is delegated to th.sortable, and bound only with ordering on.
SortClick(i) ==
  /\ view.container = "table"
  /\ i \in 1..Len(view.th)
  /\ IF "ordering" \in listeners /\ view.th[i].sortable
     THEN /\ CanFetch
          /\ coreTableState' =
               JSONstringify(ToggleSort(JSONparse(coreTableState),
                                        ParseInt(view.th[i].columnIndex)))
          /\ FetchData(coreTableState', view, Caller("sort", i - 1))
          /\ UNCHANGED <<options, listeners, columnsPending, now, timeout,
                         inputValue, ignored>>
     ELSE /\ ignored' = TRUE
          /\ UNCHANGED <<options, coreTableState, listeners, view, columnsPending,
                         fetchCount, pending, now, timeout, inputValue>>

\* The search input's value changes (typing, pasting, a key held down).
EditInput(value) ==
  /\ view.container = "table"
  /\ options.searching
  /\ value # inputValue
  /\ inputValue' = value
  /\ UNCHANGED <<options, coreTableState, listeners, view, columnsPending,
                 fetchCount, pending, now, timeout, ignored>>

\* A keyup in the search input: the debounced handler is called.  The model
\* follows the timers that come due before the clock stops.
KeyUp ==
  /\ view.container = "table"
  /\ "searching" \in listeners
  /\ now + DebounceDelay <= MaxTime
  /\ timeout' = Debounce(timeout, now, inputValue)
  /\ UNCHANGED <<options, coreTableState, listeners, view, columnsPending,
                 fetchCount, pending, now, inputValue, ignored>>

\* The debounce timer fires: the search callback runs with this = the input.
DebouncedSearch ==
  /\ timeout.armed
  /\ now >= timeout.due
  /\ CanFetch
  /\ timeout' = NoTimeout
  /\ coreTableState' =
       JSONstringify(SetSearch(JSONparse(coreTableState), inputValue))
  /\ FetchData(coreTableState', view, Caller("search", timeout.n))
  /\ UNCHANGED <<options, listeners, columnsPending, now, inputValue, ignored>>

\* A click on the Previous (b = 1) or Next (b = 2) button.
PagingClick(b) ==
  /\ view.container = "table"
  /\ "paging" \in listeners
  /\ view.buttons # <<>>
  /\ IF view.buttons[b]
     THEN /\ ignored' = TRUE
          /\ UNCHANGED <<options, coreTableState, listeners, view, columnsPending,
                         fetchCount, pending, now, timeout, inputValue>>
     ELSE /\ CanFetch
          /\ coreTableState' =
               JSONstringify(GoToPage(JSONparse(coreTableState),
                                      IF b = 1 THEN "previous" ELSE "next"))
          /\ FetchData(coreTableState', view, Caller("paging", b))
          /\ UNCHANGED <<options, listeners, columnsPending, now, timeout,
                         inputValue, ignored>>

----------------------------------------------------------------------------
(* Transport callbacks and the clock *)

\* A then callback that renders from the state stored at resolution time.
FetchResolvedLive(request, response) ==
  /\ request \in pending
  /\ pending' = pending \ {request}
  /\ view' = RenderResponse(view, options, JSONparse(coreTableState), response,
                            request.seq)
  /\ UNCHANGED <<options, coreTableState, listeners, columnsPending, fetchCount,
                 now, timeout, inputValue, ignored>>

\* The then callback of a request, with the response the server sent.
FetchResolved(request, response) ==
  /\ request \in pending
  /\ pending' = pending \ {request}
  /\ view' = RenderResponse(view, options, request.state, response,
                            request.seq)
  /\ UNCHANGED <<options, coreTableState, listeners, columnsPending, fetchCount,
                 now, timeout, inputValue, ignored>>

\* The catch callback of a request after a transport failure.
FetchRejected(request) ==
  /\ request \in pending
  /\ pending' = pending \ {request}
  /\ view' = ShowFetchError(view, request.seq, "rejected")
  /\ UNCHANGED <<options, coreTableState, listeners, columnsPending, fetchCount,
                 now, timeout, inputValue, ignored>>

\* Time passes.
Tick ==
  /\ now < MaxTime
  /\ now' = Min(now + TickStep, MaxTime)
  /\ UNCHANGED <<options, coreTableState, listeners, view, columnsPending,
                 fetchCount, pending, timeout, inputValue, ignored>>

Next ==
  \/ \E columns \in DiscoveredChoices : ColumnsResolved(columns)
  \/ ColumnsRejected
  \/ \E i \in 1..MaxColumns : SortClick(i)
  \/ \E value \in InputValues : EditInput(value)
  \/ KeyUp
  \/ DebouncedSearch
  \/ \E b \in {1, 2} : PagingClick(b)
  \/ \E opts \in AgainChoices : CoreTableAgain(opts)
  \/ \E request \in pending, response \in Responses : FetchResolved(request, response)
  \/ \E request \in pending : FetchRejected(request)
  \/ Tick

Spec == Init /\ [][Next]_vars

\* The steps of a grid without search box and paging controls.
NextSort ==
  \/ \E columns \in DiscoveredChoices : ColumnsResolved(columns)
  \/ ColumnsRejected
  \/ \E i \in 1..MaxColumns : SortClick(i)
  \/ \E request \in pending, response \in Responses : FetchResolved(request, response)
  \/ \E request \in pending : FetchRejected(request)
  \/ Tick

SpecSort == InitSort /\ [][NextSort]_vars

\* The steps of such a grid when coreTable() is called on it again.
NextReinit ==
  \/ \E columns \in DiscoveredChoices : ColumnsResolved(columns)
  \/ ColumnsRejected
  \/ \E i \in 1..MaxColumns : SortClick(i)
  \/ \E opts \in AgainChoices : CoreTableAgain(opts)
  \/ \E request \in pending, response \in Responses : FetchResolved(request, response)
  \/ \E request \in pending : FetchRejected(request)
  \/ Tick

SpecReinit == InitSort /\ [][NextReinit]_vars

\* The steps of a grid with static columns.
NextSearch ==
  \/ \E i \in 1..MaxColumns : SortClick(i)
  \/ \E value \in InputValues : EditInput(value)
  \/ KeyUp
  \/ DebouncedSearch
  \/ \E b \in {1, 2} : PagingClick(b)
  \/ \E request \in pending, response \in Responses : FetchResolved(request, response)
  \/ \E request \in pending : FetchRejected(request)
  \/ Tick

SpecSearch == InitSearch /\ [][NextSearch]_vars

\* The steps of a grid whose only controls are the paging buttons.
NextPaging ==
  \/ \E b \in {1, 2} : PagingClick(b)
  \/ \E request \in pending, response \in Responses : FetchResolved(request, response)
  \/ \E request \in pending : FetchRejected(request)
  \/ Tick

SpecPaging == InitPaging /\ [][NextPaging]_vars

\* The steps of a grid with sortable headers or paging buttons.
NextRender ==
  \/ \E i \in 1..MaxColumns : SortClick(i)
  \/ \E b \in {1, 2} : PagingClick(b)
  \/ \E request \in pending, response \in Responses : FetchResolved(request, response)
  \/ \E request \in pending : FetchRejected(request)
  \/ Tick

SpecRender == InitRender /\ [][NextRender]_vars

\* The responses the summary is computed for.
SummaryResponses == [data : {"rows", "empty"}, recordsFiltered : 0..MaxFiltered]

\* The response to the request in flight is rendered.
NextSummary ==
  \E request \in pending, response \in SummaryResponses :
    FetchResolved(request, response)

SpecSummary == InitSummary /\ [][NextSummary]_vars

----------------------------------------------------------------------------
(* Vocabulary of the properties *)

\* The live ViewState.
State == JSONparse(coreTableState)

\* The numbers of the requests whose callbacks have run.
Settled == {n \in 1..fetchCount : \A r \in pending : r.seq # n}

\* The request this step issues, if it issues one.
IssuedNow(r) == r \in pending' /\ r.seq = fetchCount' /\ fetchCount' = fetchCount + 1

\* This step is the then or catch callback of request r.
SettlesNow(r) == r \in pending /\ pending' = pending \ {r} /\ fetchCount' = fetchCount

\* This step is the catch callback of r after a transport failure.
RejectsNow(r) ==
  SettlesNow(r) /\ view'.tbody = Tbody("error", r.seq, "rejected")

\* Column index (0-based) names a column the grid lets the user sort by.
Sortable(index) ==
  /\ options.ordering
  /\ index + 1 \in 1..Len(options.columns)
  /\ Orderable(options.columns[index + 1])

----------------------------------------------------------------------------
(* C1: last-request-wins.  A response that arrives after the response of a
   request issued later never changes the view. *)
C1_StaleResponseLeavesView ==
  [][\A r \in pending :
       (SettlesNow(r) /\ ~RejectsNow(r) /\ \E n \in Settled : n > r.seq)
         => view' = view]_vars

(* C2: a failed request writes the error row only while it is the latest
   request issued; a superseded request's failure leaves the view alone; the
   ViewState is unchanged either way. *)
C2_ErrorRowOnlyForLatest ==
  [][\A r \in pending :
       RejectsNow(r) =>
         /\ coreTableState' = coreTableState
         /\ r.seq < fetchCount => view' = view]_vars

----------------------------------------------------------------------------
(* C3: debounce.  Keyups issue no request and arm one timer; when it fires,
   at least DebounceDelay after the last keyup, exactly one request is issued,
   on behalf of the search, and it carries the value the input holds then. *)
C3_DebounceOneFetch ==
  [][/\ (timeout' # timeout /\ timeout'.armed) =>
          /\ fetchCount' = fetchCount
          /\ pending' = pending
          /\ coreTableState' = coreTableState
     /\ (timeout.armed /\ ~timeout'.armed) =>
          /\ now >= timeout.at + DebounceDelay
          /\ \E r \in pending' :
               /\ IssuedNow(r)
               /\ pending' = pending \cup {r}
               /\ r.by.kind = "search"
               /\ r.requestData.search = inputValue
     /\ \A r \in pending' :
          (IssuedNow(r) /\ r.by.kind = "search") =>
            (timeout.armed /\ ~timeout'.armed)]_vars

\* A request issued by the timer of a burst of several keyups is in flight.
C3_Witness ==
  \E r \in pending :
    r.by.kind = "search" /\ r.by.n >= 2 /\ r.requestData.search = "a"

\* The claim as stated: the request carries the value of the last keyup.
C3_CarriesLastEventValue ==
  [][(timeout.armed /\ ~timeout'.armed) =>
       \A r \in pending' : IssuedNow(r) => r.requestData.search = timeout.value]_vars

(* C4: the page of the ViewState is never negative, and no request is sent
   with a negative offset. *)
C4_PageNonNegative ==
  /\ State.currentPage >= 0
  /\ \A r \in pending : r.requestData.start >= 0

(* C5: a request issued by the debounced search has offset 0 and carries the
   search term the callback has just read from the input. *)
C5_SearchResetsPage ==
  [][\A r \in pending' :
       (IssuedNow(r) /\ r.by.kind = "search") =>
         /\ r.requestData.start = 0
         /\ r.state.currentPage = 0
         /\ State'.currentPage = 0
         /\ r.requestData.search = inputValue
         /\ State'.searchTerm = inputValue]_vars

\* A search request follows directly on a request for a later page.
C5_Witness ==
  \E r \in pending, q \in pending :
    /\ q.seq + 1 = r.seq
    /\ q.state.currentPage > 0
    /\ r.by.kind = "search"
    /\ r.requestData.search # q.requestData.search

(* C6: a sort click on the active column flips the direction and keeps the
   column; on another sortable column it selects that column, ascending. *)
C6_ToggleSort ==
  [][\A r \in pending' :
       (IssuedNow(r) /\ r.by.kind = "sort") =>
         /\ r.by.n = State.sort.columnIndex =>
              /\ State'.sort.columnIndex = State.sort.columnIndex
              /\ State'.sort.direction # State.sort.direction
              /\ State'.sort.direction \in {"asc", "desc"}
         /\ r.by.n # State.sort.columnIndex =>
              State'.sort = [columnIndex |-> r.by.n, direction |-> "asc"]
         /\ r.state.sort = State'.sort]_vars

\* A click on another column while the direction was descending.
C6_Witness ==
  \E r \in pending, q \in pending :
    /\ q.seq + 1 = r.seq
    /\ q.state.sort.direction = "desc"
    /\ r.by.kind = "sort"
    /\ r.by.n # q.state.sort.columnIndex
    /\ r.state.sort.direction = "asc"

(* C7: a click on a header whose column is not sortable changes nothing and
   issues no request; every request a sort click issues is for a sortable
   column. *)
C7_NonSortableClickIsNoOp ==
  [][/\ (ignored' /\ ~ignored) =>
          UNCHANGED <<options, coreTableState, listeners, view, columnsPending,
                      fetchCount, pending, now, timeout, inputValue>>
     /\ \A r \in pending' :
          (IssuedNow(r) /\ r.by.kind = "sort") => Sortable(r.by.n)
     /\ State'.sort # State.sort => Sortable(State'.sort.columnIndex)]_vars

\* A click was ignored on a grid that has a header that is not sortable and
\* no paging button yet.
C7_Witness ==
  /\ ignored
  /\ view.buttons = <<>>
  /\ \E i \in 1..Len(view.th) : ~Sortable(i - 1)

(* C8: after a failed column discovery the container shows the error only,
   no handler is bound and no data request is ever issued. *)
C8_NoFetchAfterColumnsFailure ==
  view.container = "errorColumns" =>
    /\ fetchCount = 0
    /\ pending = {}
    /\ listeners = {}
    /\ view = [BlankView EXCEPT !.container = "errorColumns"]
    /\ State = InitialState(options)

\* Time has passed since the column discovery failed.
C8_Witness == view.container = "errorColumns" /\ now > 0

(* C9: a response with a malformed row payload shows the "no matching
   records" row: the then callback never ends in the error row. *)
C9_MalformedRowsShownAsEmpty ==
  ~(view.tbody.kind = "error" /\ view.tbody.why = "threw")

(* C10: on a grid that is set up, sortColumnIndex names an existing column
   that is orderable, or is 0 when no column is. *)
C10_SortColumnIndexSortable ==
  view.container = "table" =>
    IF \E i \in 1..Len(options.columns) : Orderable(options.columns[i])
    THEN /\ State.sort.columnIndex + 1 \in 1..Len(options.columns)
         /\ Orderable(options.columns[State.sort.columnIndex + 1])
    ELSE State.sort.columnIndex = 0

----------------------------------------------------------------------------
(* C11: when no columns are resolvable (no static columns and no discovery
   endpoint, or a discovery that is over and has left the column list empty)
   the container shows an error and no data request is ever issued. *)
C11_NoColumnsNoFetch ==
  (~columnsPending /\ Len(options.columns) = 0) =>
    /\ view.container \in {"errorNoColumns", "errorColumns"}
    /\ fetchCount = 0
    /\ pending = {}

(* C12: a second coreTable() call on the container, whatever the state of
   the first initialisation, changes nothing: the ViewState, the handlers,
   the DOM, the discovery call and the data requests stay as they were. *)
C12_ReinitIsNoOp ==
  [][(\E opts \in AgainChoices : CoreTableAgain(opts)) =>
       UNCHANGED <<options, coreTableState, listeners, view, columnsPending,
                   fetchCount, pending, now, timeout, inputValue>>]_vars

\* A second call was made while the column discovery was still in flight.
C12_Witness == ignored /\ columnsPending

(* C13: every render of the paging controls disables Previous iff the page
   rendered is 0 and Next iff the end record of the summary has reached the
   filtered count; a click on a disabled button changes nothing and issues no
   request, and every request a paging click issues comes from an enabled
   button. *)
C13_PagingButtons ==
  [][/\ \A r \in pending :
          (SettlesNow(r) /\ options.paging
             /\ view'.tbody.kind \in {"rows", "noRecords"}) =>
            view'.buttons = <<r.state.currentPage = 0,
                              view'.info[2] >= view'.info[3]>>
     /\ \A r \in pending' :
          (IssuedNow(r) /\ r.by.kind = "paging") =>
            (view.buttons # <<>> /\ ~view.buttons[r.by.n])
     /\ (ignored' /\ ~ignored) =>
          UNCHANGED <<coreTableState, view, fetchCount, pending>>]_vars

\* On the last page, with Previous enabled and Next disabled, a click on a
\* disabled button was ignored.
C13_Witness ==
  /\ ignored
  /\ view.buttons = <<FALSE, TRUE>>
  /\ view.info[1] > 1

(* C14: the summary rendered for page p, page size s and f filtered records
   is "start to end of f" with start = 0 when f = 0 and p * s + 1 otherwise,
   and end = min(start + s - 1, f); page 1 of size 10 with 25 records gives
   11 to 20 of 25, and no records give 0 to 0 of 0. *)
C14_Summary ==
  (view.tbody.kind \in {"rows", "noRecords"} /\ view.tbody.seq = fetchCount) =>
    LET p == State.currentPage
        s == State.pageLength
        f == view.info[3]
        start == IF f = 0 THEN 0 ELSE p * s + 1
        end == IF start + s - 1 <= f THEN start + s - 1 ELSE f
    IN /\ view.info = <<start, end, f>>
       /\ (p = 1 /\ s = 10 /\ f = 25) => view.info = <<11, 20, 25>>
       /\ f = 0 => view.info = <<0, 0, 0>>

\* The summary of the example has been rendered.
C14_Witness ==
  /\ State.currentPage = 1
  /\ State.pageLength = 10
  /\ view.tbody.kind = "rows"
  /\ view.info = <<11, 20, 25>>

(* C15: two-phase startup.  While the column discovery is in flight no data
   request has been issued, no handler is bound and the ViewState is the
   initial one; the step that resolves it issues the first data request, and
   the initial load is issued once only. *)
C15_TwoPhaseStartup ==
  /\ [](columnsPending =>
          /\ fetchCount = 0
          /\ pending = {}
          /\ listeners = {}
          /\ view = BlankView
          /\ State = InitialState(options)
          /\ ~timeout.armed)
  /\ [][/\ (columnsPending /\ ~columnsPending' /\ view'.container = "table") =>
            /\ fetchCount' = 1
            /\ \E r \in pending' :
                 /\ pending' = {r}
                 /\ r.seq = 1
                 /\ r.by.kind = "initializeTable"
                 /\ r.state = State
        /\ \A r \in pending' :
             (IssuedNow(r) /\ r.by.kind = "initializeTable") =>
               (r.seq = 1 /\ columnsPending)]_vars

\* The discovery was resolved after some time and the first data request is
\* in flight.
C15_Witness ==
  /\ options.columnsUrl
  /\ ~columnsPending
  /\ view.container = "table"
  /\ \E r \in pending : r.seq = 1 /\ r.requestData.draw > 0

(* C16: every step that changes the ViewState issues, in that same step,
   exactly one request built from the state just written (offset = page *
   pageLength, limit = pageLength), numbered next in order of issue; a sort
   or paging click leaves the search timer as it is. *)
C16_StateAndFetchAtomic ==
  [][/\ fetchCount' \in {fetchCount, fetchCount + 1}
     /\ coreTableState' # coreTableState =>
          \E r \in pending' : IssuedNow(r) /\ r.by.kind # "initializeTable"
     /\ \A r \in pending' :
          (IssuedNow(r) /\ r.by.kind # "initializeTable") =>
            /\ pending' = pending \cup {r}
            /\ r.seq = fetchCount + 1
            /\ r.state = State'
            /\ r.requestData.start = State'.currentPage * State'.pageLength
            /\ r.requestData.length = State'.pageLength
            /\ r.requestData.search = State'.searchTerm
            /\ r.requestData.orderColumn = State'.sort.columnIndex
            /\ r.requestData.orderDir = State'.sort.direction
            /\ r.by.kind \in {"sort", "paging"} => timeout' = timeout]_vars

\* A sort click and a paging click were handled after the last keyup, and
\* the timer that keyup armed is still running.
C16_Witness ==
  /\ timeout.armed
  /\ \E r \in pending, q \in pending :
       /\ r.by.kind = "sort" /\ r.requestData.draw > timeout.at
       /\ q.by.kind = "paging" /\ q.requestData.draw > timeout.at

(* C17: request tokens are strictly increasing: of two requests, the one
   issued later carries the greater draw, also when both are issued within
   the same millisecond. *)
C17_TokensStrictlyIncreasing ==
  \A r \in pending, q \in pending :
    r.seq < q.seq => r.requestData.draw < q.requestData.draw

(* C18: what a response renders (summary, paging buttons, sort indicator) is
   computed from the state its request was issued with, whatever the stored
   state has become while the request was in flight. *)
C18_RenderFromSnapshot ==
  [][\A r \in pending :
       (SettlesNow(r) /\ view'.tbody.kind \in {"rows", "noRecords"}) =>
         /\ options.paging =>
              LET f == view'.info[3]
                  start == IF f = 0 THEN 0
                           ELSE r.state.currentPage * r.state.pageLength + 1
                  end == Min(start + r.state.pageLength - 1, f)
              IN /\ view'.info = <<start, end, f>>
                 /\ view'.buttons = <<r.state.currentPage = 0, end >= f>>
         /\ options.ordering =>
              \A i \in 1..Len(view'.th) :
                view'.th[i].sortable =>
                  view'.th[i].sorting =
                    IF i - 1 = r.state.sort.columnIndex
                    THEN r.state.sort.direction ELSE ""]_vars

\* A response was rendered after a later request had been issued, and its
\* summary is not the one the stored state would give.
C18_Witness ==
  /\ view.tbody.kind = "rows"
  /\ view.tbody.seq < fetchCount
  /\ view.info # <<>>
  /\ view.info[1] # StartRecord(State, view.info[3])

(* C19: on a grid with ordering enabled, every render of a successful
   response leaves exactly one header with a sort indicator: the header of
   the rendered sort column, with the class of the rendered direction. *)
C19_OneSortIndicator ==
  [][\A r \in pending :
       (SettlesNow(r) /\ options.ordering
          /\ view'.tbody.kind \in {"rows", "noRecords"}) =>
         \E i \in 1..Len(view'.th) :
           /\ i - 1 = r.state.sort.columnIndex
           /\ view'.th[i].sorting = r.state.sort.direction
           /\ \A j \in 1..Len(view'.th) : j # i => view'.th[j].sorting = ""]_vars

(* C20: every summary rendered is well-formed: start <= end <= filtered,
   whatever clicks and responses came before. *)
C20_SummaryWellFormed ==
  view.info # <<>> =>
    (view.info[1] <= view.info[2] /\ view.info[2] <= view.info[3])

====
